---- MODULE Spec2Model ----
(***************************************************************************)
(* Model of cc-test/src/cxx11_clang.cpp.                                   *)
(*                                                                         *)
(* Two views of the eight-line unit are modelled:                          *)
(*   - the run-time view: threads that call cxx11_clang(), whose body      *)
(*     default-constructs a std::unique_ptr<int> in automatic storage and  *)
(*     destroys it at the closing brace (Spec, FairSpec);                  *)
(*   - the build-time view: a toolchain translating the constructs of the  *)
(*     source text one after the other, and the build orchestration that   *)
(*     starts the translation and records its exit status (BuildSpec).     *)
(***************************************************************************)
EXTENDS Integers, Sequences, FiniteSets, TLC

\* ---- bounds -------------------------------------------------------------
NumThreads == 2
NumCells == 2
MaxCalls == 3
MaxRuns == 2

\* ---- run-time state ------------------------------------------------------
VARIABLES pc, mem, heap, io, releases, steps, calls, initial
\* ---- build-time state ----------------------------------------------------
VARIABLES cur, tcOf, envOf, pos, outcome, exit, recorded, symtab, used, consulted

rtVars == <<pc, mem, heap, io, releases, steps, calls, initial>>
buildVars == <<cur, tcOf, envOf, pos, outcome, exit, recorded, symtab, used, consulted>>
vars == <<pc, mem, heap, io, releases, steps, calls, initial,
          cur, tcOf, envOf, pos, outcome, exit, recorded, symtab, used, consulted>>

Threads == 1..NumThreads
Cells == 1..NumCells
\* the null pointer value held by an empty unique_ptr
NULL == 0
PtrValues == {NULL} \cup Cells

\* Memory locations: one automatic slot per calling thread (the frame of
\* cxx11_clang) and one word of static storage that belongs to the rest of
\* the program.
StaticLoc == <<"static", 0>>
StackLoc(t) == <<"stack", t>>
Locs == {StackLoc(t) : t \in Threads} \cup {StaticLoc}

\* `std::unique_ptr<int> p;` is a block-scope declaration without `static`:
\* p lives in the frame of the calling thread.
PLocStatic(t) == StaticLoc
PLoc(t) == StackLoc(t)

\* What is observable outside the function: static storage, the heap, I/O.
Observable == [static |-> mem[StaticLoc], heap |-> heap, io |-> io]

RtInit ==
    /\ pc = [t \in Threads |-> "idle"]
    /\ \E s \in PtrValues : mem = [l \in Locs |-> IF l = StaticLoc THEN s ELSE NULL]
    /\ heap \in SUBSET Cells
    /\ io = <<>>
    /\ releases = 0
    /\ steps = [t \in Threads |-> 0]
    /\ calls = 0
    /\ initial = [static |-> mem[StaticLoc], heap |-> heap, io |-> io]

\* Entry into cxx11_clang(): the frame is pushed; the slot of p holds whatever
\* the stack held before (an indeterminate value) until p is constructed.
Call(t) ==
    /\ pc[t] = "idle"
    /\ calls < MaxCalls
    /\ calls' = calls + 1
    /\ pc' = [pc EXCEPT ![t] = "ctor"]
    /\ \E g \in PtrValues : mem' = [mem EXCEPT ![StackLoc(t)] = g]
    /\ steps' = [steps EXCEPT ![t] = 0]
    /\ UNCHANGED <<heap, io, releases, initial>>

\* A declaration that leaves the slot as it was (as a raw `int *p;` would).
ConstructUninit(t) ==
    /\ pc[t] = "ctor"
    /\ pc' = [pc EXCEPT ![t] = "dtor"]
    /\ steps' = [steps EXCEPT ![t] = @ + 1]
    /\ UNCHANGED <<mem, heap, io, releases, calls, initial>>

\* A constructor that acquires an int (as `p(new int)` would).
ConstructOwning(t) ==
    /\ pc[t] = "ctor"
    /\ \E c \in Cells :
          /\ mem' = [mem EXCEPT ![PLoc(t)] = c]
          /\ heap' = heap \cup {c}
    /\ pc' = [pc EXCEPT ![t] = "dtor"]
    /\ steps' = [steps EXCEPT ![t] = @ + 1]
    /\ UNCHANGED <<io, releases, calls, initial>>

\* `std::unique_ptr<int> p;` : the default constructor stores the null
\* pointer and acquires nothing.
Construct(t) ==
    /\ pc[t] = "ctor"
    /\ mem' = [mem EXCEPT ![PLoc(t)] = NULL]
    /\ pc' = [pc EXCEPT ![t] = "dtor"]
    /\ steps' = [steps EXCEPT ![t] = @ + 1]
    /\ UNCHANGED <<heap, io, releases, calls, initial>>

\* A destructor step that does not leave the scope (it is taken again).
DestroyLoop(t) ==
    /\ pc[t] = "dtor"
    /\ steps' = [steps EXCEPT ![t] = IF @ < 3 THEN @ + 1 ELSE @]
    /\ UNCHANGED <<pc, mem, heap, io, releases, calls, initial>>

\* The closing brace: ~unique_ptr() calls the deleter only when the stored
\* pointer is not null.
Destroy(t) ==
    /\ pc[t] = "dtor"
    /\ IF mem[PLoc(t)] # NULL
          THEN /\ heap' = heap \ {mem[PLoc(t)]}
               /\ releases' = releases + 1
          ELSE UNCHANGED <<heap, releases>>
    /\ pc' = [pc EXCEPT ![t] = "ret"]
    /\ steps' = [steps EXCEPT ![t] = @ + 1]
    /\ UNCHANGED <<mem, io, calls, initial>>

\* Return to the caller (void: nothing is handed back).
Return(t) ==
    /\ pc[t] = "ret"
    /\ pc' = [pc EXCEPT ![t] = "idle"]
    /\ UNCHANGED <<mem, heap, io, releases, steps, calls, initial>>

\* ---- build-time view ----------------------------------------------------
Runs == 1..MaxRuns
Features == {"unique_ptr", "cxx11_lang"}
\* A toolchain configuration is the set of C++11 features it provides on top
\* of the C++98 baseline (linkage specifications, the <memory> header).
Toolchains == SUBSET Features
Envs == {"e1", "e2"}

\* The constructs of the translation unit, in source order.
SourceText ==
    << [line |-> 3, kind |-> "include",  text |-> "memory"],
       [line |-> 5, kind |-> "linkage",  text |-> "C"],
       [line |-> 6, kind |-> "function", text |-> "cxx11_clang"],
       [line |-> 7, kind |-> "local",    text |-> "std::unique_ptr<int>"] >>

\* Signature of the function defined on line 6: `void cxx11_clang()`.
Signature == [params |-> 0, ret |-> "void"]

\* A declaration of a raw pointer: nothing beyond the baseline is needed.
RequiresNothing(c) == {}
\* A declaration with a C++11 initialiser (`p = nullptr`) as well.
RequiresNullptr(c) ==
    IF c.kind = "local" THEN {"unique_ptr", "cxx11_lang"} ELSE {}
\* What a construct needs beyond the C++98 baseline.
Requires(c) ==
    IF c.kind = "local" /\ c.text = "std::unique_ptr<int>"
        THEN {"unique_ptr"}
        ELSE {}

\* The inputs a construct makes the translation consult.
Inputs(c) ==
    IF c.kind = "include" THEN {"source", "toolchain"}
    ELSE IF c.kind = "local" THEN {"source", "toolchain"}
    ELSE {"source"}

\* A unit whose translation also looks at the environment.
SupportedEnv(c, tc, env, clock) == Requires(c) \subseteq tc /\ (c.kind = "local" => env = "e1")
\* A unit whose translation also looks at the time of the run.
SupportedClock(c, tc, env, clock) == Requires(c) \subseteq tc /\ (c.kind = "local" => clock % 2 = 1)
\* The unit has no conditional compilation, no __DATE__/__TIME__, no local
\* include: whether a construct translates is decided by the toolchain alone.
Supported(c, tc, env, clock) == Requires(c) \subseteq tc

\* No linkage specification in front of the function.
LinkageOfDefault(i) == "C++"
\* The language linkage of the declaration at position i: `extern "C"`
\* directly in front of it, C++ otherwise.
LinkageOf(i) ==
    IF i > 1 /\ SourceText[i-1].kind = "linkage"
        THEN SourceText[i-1].text
        ELSE "C++"

\* Itanium C++ ABI name of a function without parameters.
Mangle(name) == "_Z" \o ToString(Len(name)) \o name \o "v"
SymbolOf(i) ==
    IF LinkageOf(i) = "C" THEN SourceText[i].text ELSE Mangle(SourceText[i].text)

BuildInit ==
    /\ cur = 0
    /\ tcOf = [r \in Runs |-> {}]
    /\ envOf = [r \in Runs |-> "e1"]
    /\ pos = [r \in Runs |-> 0]
    /\ outcome = [r \in Runs |-> "none"]
    /\ exit = [r \in Runs |-> -1]
    /\ recorded = [r \in Runs |-> "unknown"]
    /\ symtab = [r \in Runs |-> {}]
    /\ used = [r \in Runs |-> {}]
    /\ consulted = [r \in Runs |-> {}]

\* The build orchestration invokes the compiler on the unit.
StartRun ==
    /\ cur < MaxRuns
    /\ cur > 0 => recorded[cur] # "unknown"
    /\ cur' = cur + 1
    /\ \E tc \in Toolchains : tcOf' = [tcOf EXCEPT ![cur + 1] = tc]
    /\ \E e \in Envs : envOf' = [envOf EXCEPT ![cur + 1] = e]
    /\ outcome' = [outcome EXCEPT ![cur + 1] = "running"]
    /\ UNCHANGED <<pos, exit, recorded, symtab, used, consulted>>

\* A translation that starts over after an error instead of stopping.
TranslateStepRetry(r) ==
    /\ r = cur
    /\ outcome[r] \in {"running", "failed"}
    /\ recorded[r] = "unknown"
    /\ pos[r] < Len(SourceText)
    /\ LET i == pos[r] + 1
           c == SourceText[i]
       IN  IF outcome[r] = "failed"
              THEN /\ outcome' = [outcome EXCEPT ![r] = "running"]
                   /\ pos' = [pos EXCEPT ![r] = 0]
                   /\ UNCHANGED <<exit, symtab, used, consulted>>
              ELSE /\ consulted' = [consulted EXCEPT ![r] = @ \cup Inputs(c)]
                   /\ IF Supported(c, tcOf[r], envOf[r], r)
                         THEN /\ pos' = [pos EXCEPT ![r] = i]
                              /\ used' = [used EXCEPT ![r] = @ \cup Requires(c)]
                              /\ symtab' = [symtab EXCEPT ![r] =
                                              IF c.kind = "function"
                                                 THEN @ \cup {[name |-> SymbolOf(i),
                                                               params |-> Signature.params,
                                                               ret |-> Signature.ret]}
                                                 ELSE @]
                              /\ UNCHANGED <<outcome, exit>>
                         ELSE /\ outcome' = [outcome EXCEPT ![r] = "failed"]
                              /\ exit' = [exit EXCEPT ![r] = 1]
                              /\ symtab' = [symtab EXCEPT ![r] = {}]
                              /\ UNCHANGED <<pos, used>>
    /\ UNCHANGED <<cur, tcOf, envOf, recorded>>

\* The toolchain translates the next construct of the unit; an unsupported
\* construct is an error and ends the translation with a non-zero status.
TranslateStep(r) ==
    /\ r = cur
    /\ outcome[r] = "running"
    /\ pos[r] < Len(SourceText)
    /\ LET i == pos[r] + 1
           c == SourceText[i]
       IN  /\ consulted' = [consulted EXCEPT ![r] = @ \cup Inputs(c)]
           /\ IF Supported(c, tcOf[r], envOf[r], r)
                 THEN /\ pos' = [pos EXCEPT ![r] = i]
                      /\ used' = [used EXCEPT ![r] = @ \cup Requires(c)]
                      /\ symtab' = [symtab EXCEPT ![r] =
                                      IF c.kind = "function"
                                         THEN @ \cup {[name |-> SymbolOf(i),
                                                       params |-> Signature.params,
                                                       ret |-> Signature.ret]}
                                         ELSE @]
                      /\ UNCHANGED <<outcome, exit>>
                 ELSE /\ outcome' = [outcome EXCEPT ![r] = "failed"]
                      /\ exit' = [exit EXCEPT ![r] = 1]
                      /\ symtab' = [symtab EXCEPT ![r] = {}]
                      /\ UNCHANGED <<pos, used>>
    /\ UNCHANGED <<cur, tcOf, envOf, recorded>>

\* End of the unit reached without an error: exit status 0.
TranslateEnd(r) ==
    /\ r = cur
    /\ outcome[r] = "running"
    /\ pos[r] = Len(SourceText)
    /\ outcome' = [outcome EXCEPT ![r] = "success"]
    /\ exit' = [exit EXCEPT ![r] = 0]
    /\ UNCHANGED <<cur, tcOf, envOf, pos, recorded, symtab, used, consulted>>

\* The build orchestration reads the exit status.
Record(r) ==
    /\ r = cur
    /\ outcome[r] \in {"success", "failed"}
    /\ recorded[r] = "unknown"
    /\ recorded' = [recorded EXCEPT ![r] =
                      IF exit[r] = 0 THEN "supported" ELSE "unsupported"]
    /\ UNCHANGED <<cur, tcOf, envOf, pos, outcome, exit, symtab, used, consulted>>

\* ---- specifications ------------------------------------------------------
Init == RtInit /\ BuildInit

Next ==
    \/ \E t \in Threads : Call(t) /\ UNCHANGED buildVars
    \/ \E t \in Threads : Construct(t) /\ UNCHANGED buildVars
    \/ \E t \in Threads : Destroy(t) /\ UNCHANGED buildVars
    \/ \E t \in Threads : Return(t) /\ UNCHANGED buildVars

Spec == Init /\ [][Next]_vars

\* Once called, a thread is scheduled until it returns.
FairSpec ==
    /\ Spec
    /\ \A t \in Threads : WF_vars((Construct(t) \/ Destroy(t) \/ Return(t)) /\ UNCHANGED buildVars)

BuildSpecInit ==
    /\ BuildInit
    /\ pc = [t \in Threads |-> "idle"]
    /\ mem = [l \in Locs |-> NULL]
    /\ heap = {}
    /\ io = <<>>
    /\ releases = 0
    /\ steps = [t \in Threads |-> 0]
    /\ calls = 0
    /\ initial = [static |-> NULL, heap |-> {}, io |-> <<>>]

BuildNext ==
    \/ StartRun /\ UNCHANGED rtVars
    \/ \E r \in Runs : TranslateStep(r) /\ UNCHANGED rtVars
    \/ \E r \in Runs : TranslateEnd(r) /\ UNCHANGED rtVars
    \/ \E r \in Runs : Record(r) /\ UNCHANGED rtVars

BuildSpec == BuildSpecInit /\ [][BuildNext]_vars

\* ---- properties ----------------------------------------------------------
AllIdle == \A t \in Threads : pc[t] = "idle"
Finished(r) == outcome[r] \in {"success", "failed"}
HasUniquePtr(r) == "unique_ptr" \in tcOf[r]

\* Two threads are about to access the same location without any
\* synchronisation between them (the constructor writes p, the destructor
\* reads it).
DataRace ==
    \E t1, t2 \in Threads :
        /\ t1 # t2
        /\ pc[t1] \in {"ctor", "dtor"}
        /\ pc[t2] \in {"ctor", "dtor"}
        /\ PLoc(t1) = PLoc(t2)

\* C1: a call of cxx11_clang() has no externally visible effect: static
\* storage, the heap and I/O are what they were before the first call, in
\* every state, after any number of calls.
C1_NoVisibleEffect == Observable = initial
C1_Witness ==
    /\ AllIdle
    /\ calls >= 2
    /\ initial.heap # {}
    /\ initial.static # NULL

\* C7: from its construction on, p holds null; nothing is ever owned, and
\* the destruction at the end of the scope releases nothing (the number of
\* releases stays 0).
C7_PNullNoRelease ==
    /\ \A t \in Threads : pc[t] \in {"dtor", "ret"} => mem[PLoc(t)] = NULL
    /\ releases = 0
C7_Witness ==
    \E t1, t2 \in Threads : pc[t1] = "dtor" /\ pc[t2] = "ret" /\ heap # {}

\* C8: every invocation terminates: a call that has entered the function
\* reaches its return, having executed exactly two steps (construct p,
\* destroy p).
C8_Terminates ==
    \A t \in Threads : (pc[t] = "ctor") ~> (pc[t] = "ret" /\ steps[t] = 2)
C8_Witness ==
    \E t \in Threads : pc[t] = "ret" /\ steps[t] = 2 /\ calls = 1

\* C10: concurrent invocations do not interfere: whatever the interleaving,
\* the shared state equals the initial state and no two threads access the
\* same location.
C10_NoInterference ==
    /\ ~DataRace
    /\ mem[StaticLoc] = initial.static
    /\ heap = initial.heap
C10_Witness ==
    \E t1, t2 \in Threads : t1 # t2 /\ pc[t1] = "dtor" /\ pc[t2] = "dtor"

\* C2: the outcome of a translation is decided by the toolchain's support
\* for std::unique_ptr: success and exit status 0 (recorded as supported)
\* exactly when the toolchain provides it, failure and a non-zero status
\* (recorded as unsupported) exactly when it does not.
C2_OutcomeBySupport ==
    \A r \in Runs :
        /\ Finished(r) => /\ (outcome[r] = "success") = HasUniquePtr(r)
                          /\ (exit[r] = 0) = HasUniquePtr(r)
                          /\ (exit[r] # 0) = (outcome[r] = "failed")
        /\ recorded[r] # "unknown" =>
              recorded[r] = (IF HasUniquePtr(r) THEN "supported" ELSE "unsupported")
C2_Witness ==
    /\ recorded[1] = "supported" /\ exit[1] = 0
    /\ recorded[2] = "unsupported" /\ exit[2] # 0

C5_UnmangledSymbol ==
    \A r \in Runs :
        outcome[r] = "success" =>
            symtab[r] = {[name |-> "cxx11_clang", params |-> 0, ret |-> "void"]}
C5_Witness ==
    \E r \in Runs : outcome[r] = "success" /\ symtab[r] # {} /\ recorded[r] = "unknown"

C9_OnlyUniquePtr ==
    /\ \A r1, r2 \in Runs :
          (Finished(r1) /\ Finished(r2) /\ HasUniquePtr(r1) = HasUniquePtr(r2))
              => outcome[r1] = outcome[r2]
    /\ \A r \in Runs : outcome[r] = "success" => used[r] = {"unique_ptr"}
C9_Witness ==
    /\ Finished(1) /\ Finished(2)
    /\ tcOf[1] # tcOf[2]
    /\ HasUniquePtr(1) /\ HasUniquePtr(2)
    /\ used[1] = {"unique_ptr"} /\ used[2] = {"unique_ptr"}

====
